---- MODULE Spec2Model ----
(***************************************************************************)
(* A model of homeassistant/components/ephember/climate.py: the zone       *)
(* activity inference (zone_is_active, zone_is_scheduled_on and the boost  *)
(* helpers), the mode mapping, and the EphEmberThermostat entity with the  *)
(* vendor client it calls.                                                 *)
(*                                                                         *)
(* Encoding of Python values:                                              *)
(*   - an Enum member is a record [cls, name]: two members are equal only  *)
(*     if they belong to the same class (Enum equality is identity);       *)
(*   - the outcome of a call that may raise is a record [exc, val], with   *)
(*     exc = "" for a normal return;                                       *)
(*   - a schedule time string "HH:MM" is the pair <<HH, MM>>;              *)
(*   - temperatures are whole degrees Celsius.                             *)
(***************************************************************************)
EXTENDS Integers, Sequences, FiniteSets, TLC

VARIABLES
    ember,        \* the vendor client's zones: zone name -> raw zone
    _zone_name,   \* EphEmberThermostat._zone_name
    _zone,        \* EphEmberThermostat._zone, the stored snapshot
    _hot_water,   \* EphEmberThermostat._hot_water
    clock,        \* the system clock, in seconds since the epoch
    ret           \* the last operation: its name, argument, outcome, vendor calls

vars == <<ember, _zone_name, _zone, _hot_water, clock, ret>>

(***************************************************************************)
(* Bounds of the model.                                                    *)
(***************************************************************************)
\* The system clock starts on Thursday 1 January 1970 at 06:00 UTC and advances
\* MaxTicks times by six hours.
MaxTicks == 3

\* Number of extra requested temperatures above the upper limit (36, 37, ...)
MaxOver == 1

(***************************************************************************)
(* The two enum classes called ZoneMode.                                   *)
(***************************************************************************)
ZoneModeNames == <<"AUTO", "ALL_DAY", "ON", "OFF">>

\* A member of the class imported from pyephember (what zone_mode returns).
pyephember_ZoneMode(n) == [cls |-> "pyephember.pyephember.ZoneMode", name |-> n]

\* A member of the class defined in climate.py, which rebinds the module's
\* global name ZoneMode after the import.
ZoneMode(n) == [cls |-> "climate.ZoneMode", name |-> n]

\* pyephember's zone_mode: the member of pyephember's enum with the raw value.
zone_mode(zone) == pyephember_ZoneMode(ZoneModeNames[zone.mode + 1])

\* pyephember's field accessors.
zone_name(zone) == zone.name
zone_is_hot_water(zone) == zone.ishotwater
zone_current_temperature(zone) == zone.currenttemperature
zone_target_temperature(zone) == zone.targettemperature
zone_is_boost_active(zone) == zone.isboostactive

(***************************************************************************)
(* Boost and advance helpers.                                              *)
(***************************************************************************)
\* zone.get('boostActivations', None): a sequence of length 0 stands for None.
_zone_boostactivation(zone) == zone.boostActivations

\* None (isNone) or the record's target temperature.
zone_boost_temperature(zone) ==
    LET boost_activation == _zone_boostactivation(zone)
    IN  IF boost_activation = <<>>
        THEN [isNone |-> TRUE, v |-> 0]
        ELSE [isNone |-> FALSE, v |-> boost_activation[1].targettemperature]

zone_advance_active(zone) == zone.isadvanceactive

zone_boost_hours(zone) ==
    IF ~ zone_is_boost_active(zone) THEN 0
    ELSE LET boost_activations == _zone_boostactivation(zone)
         IN  IF boost_activations = <<>> THEN 0
             ELSE boost_activations[1].numberofhours

\* Variant: the target counts as reached only once it is exceeded.
zone_is_target_temperature_reached_strict(zone) ==
    zone_current_temperature(zone) > zone_target_temperature(zone)

zone_is_target_temperature_reached(zone) ==
    zone_current_temperature(zone) >= zone_target_temperature(zone)

\* Compares the boost target with the zone's target temperature; None >= x
\* raises TypeError.
zone_is_target_boost_temperature_reached(zone) ==
    LET b == zone_boost_temperature(zone)
    IN  IF b.isNone
        THEN [exc |-> "TypeError", val |-> FALSE]
        ELSE [exc |-> "", val |-> b.v >= zone_target_temperature(zone)]

(***************************************************************************)
(* zone_is_scheduled_on.                                                   *)
(***************************************************************************)
DAYS == <<"monday", "tuesday", "wednesday", "thursday", "friday",
          "saturday", "sunday">>

PERIODS == <<"p1", "p2", "p3">>

\* time.gmtime(seconds): the UTC hour and minute (and the weekday, Monday = 0;
\* the epoch was a Thursday).
gmtime(secs) ==
    [tm_hour |-> (secs \div 3600) % 24,
     tm_min  |-> (secs \div 60) % 60,
     tm_wday |-> ((secs \div 86400) + 3) % 7]

\* datetime.strptime(stime, '%H:%M').time()
scheduletime_to_time(stime) == [hour |-> stime[1], minute |-> stime[2]]

\* a <= b on datetime.time values
time_le(a, b) ==
    \/ a.hour < b.hour
    \/ a.hour = b.hour /\ a.minute <= b.minute

\* The try block: zone['timestamp'] / 1000 raises KeyError when the key is
\* missing and TypeError when the value is not a number.
zone_tstamp_try(zone) ==
    CASE zone.timestamp.kind = "missing" ->
            [exc |-> "KeyError", val |-> [hour |-> 0, minute |-> 0]]
      [] zone.timestamp.kind = "str" ->
            [exc |-> "TypeError", val |-> [hour |-> 0, minute |-> 0]]
      [] OTHER ->
            LET zone_tstamp == gmtime(zone.timestamp.v \div 1000)
            IN  [exc |-> "",
                 val |-> [hour |-> zone_tstamp.tm_hour,
                          minute |-> zone_tstamp.tm_min]]

\* Variant: no except clause, the exception of the try block escapes.
zone_ts_time_noexcept(zone, systime) == zone_tstamp_try(zone)

\* try / bare except: any exception is replaced by the system time.
zone_ts_time(zone, systime) ==
    LET t == zone_tstamp_try(zone)
    IN  IF t.exc = ""
        THEN t
        ELSE LET zone_tstamp == gmtime(systime)
             IN  [exc |-> "",
                  val |-> [hour |-> zone_tstamp.tm_hour,
                           minute |-> zone_tstamp.tm_min]]

\* The loop over the seven days: it returns True at the first matching window
\* and raises nothing, so it is the disjunction over all days.
schedule_loop(zone, mode, t) ==
    \E i \in DOMAIN DAYS :
        LET program == zone.programmes[DAYS[i]]
        IN  IF mode = ZoneMode("AUTO")
            THEN \E j \in DOMAIN PERIODS :
                    LET start_time ==
                            scheduletime_to_time(program[PERIODS[j]].starttime)
                        end_time ==
                            scheduletime_to_time(program[PERIODS[j]].endtime)
                    IN  time_le(start_time, t) /\ time_le(t, end_time)
            ELSE IF mode = ZoneMode("ALL_DAY")
            THEN LET start_time ==
                         scheduletime_to_time(program["p1"].starttime)
                     end_time ==
                         scheduletime_to_time(program["p3"].endtime)
                 IN  time_le(start_time, t) /\ time_le(t, end_time)
            ELSE FALSE

zone_is_scheduled_on(zone, systime) ==
    LET mode == zone_mode(zone)
    IN  IF mode = ZoneMode("OFF") THEN [exc |-> "", val |-> FALSE]
        ELSE IF mode = ZoneMode("ON") THEN [exc |-> "", val |-> TRUE]
        ELSE LET t == zone_ts_time(zone, systime)
             IN  IF t.exc # ""
                 THEN [exc |-> t.exc, val |-> FALSE]
                 ELSE [exc |-> "", val |-> schedule_loop(zone, mode, t.val)]

(***************************************************************************)
(* zone_is_active.                                                         *)
(***************************************************************************)
zone_is_active(zone, systime) ==
    LET s == zone_is_scheduled_on(zone, systime)
    IN  IF s.exc # "" THEN s
        ELSE IF (s.val \/ zone_advance_active(zone))
                /\ ~ zone_is_target_temperature_reached(zone)
        THEN [exc |-> "", val |-> TRUE]
        ELSE IF zone_boost_hours(zone) > 0
        THEN LET r == zone_is_target_boost_temperature_reached(zone)
             IN  IF r.exc # "" THEN r
                 ELSE [exc |-> "", val |-> ~ r.val]
        ELSE [exc |-> "", val |-> FALSE]

(***************************************************************************)
(* Mode mapping.                                                           *)
(***************************************************************************)
\* The platform modes used as arguments: the three of OPERATION_LIST and two
\* that have no vendor mapping.
OPERATION_LIST == <<"heat_cool", "heat", "off">>

HVACModes == {"heat_cool", "heat", "off", "cool", "auto"}

EPH_TO_HA_STATE ==
    [n \in {"AUTO", "ON", "OFF"} |->
        CASE n = "AUTO" -> "heat_cool"
          [] n = "ON"   -> "heat"
          [] n = "OFF"  -> "off"]

\* {value: key for key, value in EPH_TO_HA_STATE.items()}
HA_STATE_TO_EPH ==
    [h \in {EPH_TO_HA_STATE[k] : k \in DOMAIN EPH_TO_HA_STATE} |->
        CHOOSE k \in DOMAIN EPH_TO_HA_STATE : EPH_TO_HA_STATE[k] = h]

None == [cls |-> "NoneType", name |-> "None"]

\* getattr(ZoneMode, HA_STATE_TO_EPH.get(operation_mode), None): dict.get gives
\* None for a mode that is not a key, and getattr raises TypeError for an
\* attribute name that is not a string, whatever its default.
map_mode_hass_eph(operation_mode) ==
    IF operation_mode \notin DOMAIN HA_STATE_TO_EPH
    THEN [exc |-> "TypeError", val |-> None]
    ELSE LET n == HA_STATE_TO_EPH[operation_mode]
         IN  IF \E i \in DOMAIN ZoneModeNames : ZoneModeNames[i] = n
             THEN [exc |-> "", val |-> ZoneMode(n)]
             ELSE [exc |-> "", val |-> None]

\* Variant: the lookup uses the enum member, not its name, as the key; no key
\* of the table is an enum member, so the default is always returned.
map_mode_eph_hass_memberkey(operation_mode) == "heat_cool"

\* EPH_TO_HA_STATE.get(operation_mode.name, HVACMode.HEAT_COOL)
map_mode_eph_hass(operation_mode) ==
    IF operation_mode.name \in DOMAIN EPH_TO_HA_STATE
    THEN EPH_TO_HA_STATE[operation_mode.name]
    ELSE "heat_cool"

(***************************************************************************)
(* The vendor client (pyephember's EphEmber), as far as the entity uses    *)
(* it: each call acts on the zone of the given name.                       *)
(***************************************************************************)
ZoneModeValue(mode) ==
    (CHOOSE i \in DOMAIN ZoneModeNames : ZoneModeNames[i] = mode.name) - 1

get_zone(e, name) == e[name]

set_mode_by_name(e, name, mode) ==
    [e EXCEPT ![name].mode = ZoneModeValue(mode)]

set_target_temperture_by_name(e, name, temperature) ==
    [e EXCEPT ![name].targettemperature = temperature]

activate_boost_by_name(e, name, temperature) ==
    [e EXCEPT ![name].isboostactive = TRUE,
              ![name].boostActivations =
                  <<[numberofhours |-> 1, targettemperature |-> temperature]>>]

deactivate_boost_by_name(e, name) ==
    [e EXCEPT ![name].isboostactive = FALSE]

(***************************************************************************)
(* EphEmberThermostat: properties.                                         *)
(***************************************************************************)
current_temperature == zone_current_temperature(_zone)

target_temperature == zone_target_temperature(_zone)

hvac_action ==
    LET a == zone_is_active(_zone, clock)
    IN  IF a.exc # "" THEN [exc |-> a.exc, val |-> ""]
        ELSE IF a.val THEN [exc |-> "", val |-> "heating"]
        ELSE [exc |-> "", val |-> "idle"]

hvac_mode == map_mode_eph_hass(zone_mode(_zone))

is_aux_heat == zone_is_boost_active(_zone)

min_temp == IF _hot_water THEN zone_target_temperature(_zone) ELSE 5

\* Variant: the branches of max_temp exchanged.
max_temp_swapped == IF _hot_water THEN 35 ELSE zone_target_temperature(_zone)

max_temp == IF _hot_water THEN zone_target_temperature(_zone) ELSE 35

(***************************************************************************)
(* EphEmberThermostat: operations.  Each records in ret what it was called *)
(* with, whether it raised, whether it logged an error of its own, which   *)
(* vendor calls it made and, for a read, the value read.                   *)
(***************************************************************************)
Call(fn, name, arg) == [fn |-> fn, zone |-> name, arg |-> arg]

Ret(op, arg, exc, logged, calls, value) ==
    [op |-> op, arg |-> arg, exc |-> exc, logged |-> logged,
     calls |-> calls, value |-> value]

set_hvac_mode(mode_arg) ==
    LET mode == map_mode_hass_eph(mode_arg)
    IN  /\ UNCHANGED <<_zone_name, _zone, _hot_water, clock>>
        /\ IF mode.exc # ""
           THEN /\ ret' = Ret("set_hvac_mode", <<mode_arg>>, mode.exc, FALSE, {}, "")
                /\ UNCHANGED ember
           ELSE IF mode.val # None
           THEN /\ ember' = set_mode_by_name(ember, _zone_name, mode.val)
                /\ ret' = Ret("set_hvac_mode", <<mode_arg>>, "", FALSE,
                              {Call("set_mode_by_name", _zone_name, <<mode.val.name>>)},
                              "")
           ELSE /\ ret' = Ret("set_hvac_mode", <<mode_arg>>, "", TRUE, {}, "")
                /\ UNCHANGED ember

turn_aux_heat_on ==
    /\ ember' = activate_boost_by_name(ember, _zone_name,
                                       zone_target_temperature(_zone))
    /\ ret' = Ret("turn_aux_heat_on", <<>>, "", FALSE,
                  {Call("activate_boost_by_name", _zone_name,
                        <<zone_target_temperature(_zone)>>)}, "")
    /\ UNCHANGED <<_zone_name, _zone, _hot_water, clock>>

\* Variant: the snapshot is refreshed right after the vendor call.
turn_aux_heat_off_refresh ==
    /\ ember' = deactivate_boost_by_name(ember, _zone_name)
    /\ _zone' = get_zone(ember', _zone_name)
    /\ ret' = Ret("turn_aux_heat_off", <<>>, "", FALSE,
                  {Call("deactivate_boost_by_name", _zone_name, <<>>)}, "")
    /\ UNCHANGED <<_zone_name, _hot_water, clock>>

turn_aux_heat_off ==
    /\ ember' = deactivate_boost_by_name(ember, _zone_name)
    /\ ret' = Ret("turn_aux_heat_off", <<>>, "", FALSE,
                  {Call("deactivate_boost_by_name", _zone_name, <<>>)}, "")
    /\ UNCHANGED <<_zone_name, _zone, _hot_water, clock>>

\* kwargs is <<>> when no temperature is given, <<t>> otherwise.
set_temperature(kwargs) ==
    /\ UNCHANGED <<_zone_name, _zone, _hot_water, clock>>
    /\ IF kwargs = <<>>
       THEN /\ ret' = Ret("set_temperature", kwargs, "", FALSE, {}, "")
            /\ UNCHANGED ember
       ELSE LET temperature == kwargs[1]
            IN  IF \/ _hot_water
                   \/ temperature = target_temperature
                   \/ temperature > max_temp
                   \/ temperature < min_temp
                THEN /\ ret' = Ret("set_temperature", kwargs, "", FALSE, {}, "")
                     /\ UNCHANGED ember
                ELSE /\ ember' = set_target_temperture_by_name(
                                     ember, _zone_name, temperature)
                     /\ ret' = Ret("set_temperature", kwargs, "", FALSE,
                                   {Call("set_target_temperture_by_name",
                                         _zone_name, <<temperature>>)}, "")

update ==
    /\ _zone' = get_zone(ember, _zone_name)
    /\ ret' = Ret("update", <<>>, "", FALSE,
                  {Call("get_zone", _zone_name, <<>>)}, "")
    /\ UNCHANGED <<ember, _zone_name, _hot_water, clock>>

\* Reads of the properties and of the inference routines.
BoolStr(b) == IF b THEN "True" ELSE "False"

read_hvac_action ==
    /\ ret' = Ret("hvac_action", <<>>, hvac_action.exc, FALSE, {}, hvac_action.val)
    /\ UNCHANGED <<ember, _zone_name, _zone, _hot_water, clock>>

read_hvac_mode ==
    /\ ret' = Ret("hvac_mode", <<>>, "", FALSE, {}, hvac_mode)
    /\ UNCHANGED <<ember, _zone_name, _zone, _hot_water, clock>>

read_is_aux_heat ==
    /\ ret' = Ret("is_aux_heat", <<>>, "", FALSE, {}, BoolStr(is_aux_heat))
    /\ UNCHANGED <<ember, _zone_name, _zone, _hot_water, clock>>

call_zone_is_scheduled_on ==
    /\ LET s == zone_is_scheduled_on(_zone, clock)
       IN  ret' = Ret("zone_is_scheduled_on", <<>>, s.exc, FALSE, {},
                      IF s.exc = "" THEN BoolStr(s.val) ELSE "")
    /\ UNCHANGED <<ember, _zone_name, _zone, _hot_water, clock>>

\* The system clock advances (time.gmtime() reads it).
Tick ==
    /\ clock < (MaxTicks + 1) * 21600
    /\ clock' = clock + 21600
    /\ ret' = Ret("tick", <<>>, "", FALSE, {}, "")
    /\ UNCHANGED <<ember, _zone_name, _zone, _hot_water>>

(***************************************************************************)
(* Raw zones.                                                              *)
(***************************************************************************)
Window(s, e) == [starttime |-> s, endtime |-> e]

Day(w1, w2, w3) == [p \in {"p1", "p2", "p3"} |->
    CASE p = "p1" -> w1 [] p = "p2" -> w2 [] p = "p3" -> w3]

EmptyDay == Day(Window(<<0, 0>>, <<0, 0>>), Window(<<0, 0>>, <<0, 0>>),
                Window(<<0, 0>>, <<0, 0>>))

DayNames == {DAYS[i] : i \in DOMAIN DAYS}

\* The weekly programmes of the model: nothing scheduled; one window
\* 09:00-17:00 on Thursday only (as p1) or on Friday only (as p2); three
\* windows 06:00-08:00, 12:00-13:00, 18:00-22:00 every day.
Programmes ==
    { [d \in DayNames |-> EmptyDay],
      [d \in DayNames |->
          IF d = "thursday"
          THEN Day(Window(<<9, 0>>, <<17, 0>>), Window(<<0, 0>>, <<0, 0>>),
                   Window(<<0, 0>>, <<0, 0>>))
          ELSE EmptyDay],
      [d \in DayNames |->
          IF d = "friday"
          THEN Day(Window(<<0, 0>>, <<0, 0>>), Window(<<9, 0>>, <<17, 0>>),
                   Window(<<0, 0>>, <<0, 0>>))
          ELSE EmptyDay],
      [d \in DayNames |->
          Day(Window(<<6, 0>>, <<8, 0>>), Window(<<12, 0>>, <<13, 0>>),
              Window(<<18, 0>>, <<22, 0>>))] }

\* Timestamps in milliseconds, all on Thursday 1 January 1970 (UTC): 10:00,
\* 12:00, 17:00, 18:00 and 23:00; a missing one and one that is a string.
Timestamps ==
    { [kind |-> "int", v |-> h * 3600000] : h \in {10, 12, 17, 18, 23} }
    \cup { [kind |-> "missing", v |-> 0], [kind |-> "str", v |-> 0] }

RawZone(name, mode, hw, ts, prog, cur, tgt, adv, ba, boost) ==
    [name |-> name, mode |-> mode, ishotwater |-> hw, timestamp |-> ts,
     programmes |-> prog, currenttemperature |-> cur,
     targettemperature |-> tgt, isadvanceactive |-> adv,
     isboostactive |-> ba, boostActivations |-> boost]

BoostRecords ==
    { <<>> } \cup
    { <<[numberofhours |-> h, targettemperature |-> 21]>> : h \in {0, 2} }

\* The snapshots the inference routines are evaluated on.
InferZones ==
    { RawZone("Kitchen", mode, FALSE, ts, prog, cur, tgt, adv, ba, boost) :
        mode \in 0..3, ts \in Timestamps, prog \in Programmes,
        cur \in {19, 21}, tgt \in {18, 21, 25}, adv \in BOOLEAN,
        ba \in BOOLEAN, boost \in BoostRecords }

ZoneNames == {"Kitchen", "Hot Water"}

\* The zones the vendor holds when the platform is set up.
SetupZone(name, mode) ==
    RawZone(name, mode, name = "Hot Water",
            [kind |-> "int", v |-> 12 * 3600000],
            CHOOSE prog \in Programmes :
                prog["thursday"]["p1"].starttime = <<9, 0>>,
            19, 21, FALSE, FALSE, <<>>)

\* Requested temperatures: below, at and above the limits, the stored one,
\* and none.
TempKwargs ==
    { <<>> } \cup
    { <<t>> : t \in {4, 5, 21, 35, 40} \cup (36 .. 35 + MaxOver) }

(***************************************************************************)
(* Specifications.                                                         *)
(***************************************************************************)
\* setup_platform creates one entity per zone of the vendor; __init__ stores
\* the zone, its name and its hot-water flag.  The model follows one entity.
Init ==
    \E n \in ZoneNames, mode \in 0..3 :
        /\ ember = [z \in ZoneNames |-> SetupZone(z, IF z = n THEN mode ELSE 0)]
        /\ _zone = ember[n]
        /\ _zone_name = zone_name(ember[n])
        /\ _hot_water = zone_is_hot_water(ember[n])
        /\ clock = 21600
        /\ ret = Ret("__init__", <<>>, "", FALSE, {}, "")

Next ==
    \/ \E m \in HVACModes : set_hvac_mode(m)
    \/ \E k \in TempKwargs : set_temperature(k)
    \/ turn_aux_heat_on
    \/ turn_aux_heat_off
    \/ update
    \/ read_hvac_action
    \/ read_hvac_mode
    \/ read_is_aux_heat
    \/ call_zone_is_scheduled_on

Spec == Init /\ [][Next]_vars

\* The inference routines on every snapshot of InferZones, at every clock.
InitInfer ==
    \E zone \in InferZones :
        /\ ember = [z \in {zone_name(zone)} |-> zone]
        /\ _zone = zone
        /\ _zone_name = zone_name(zone)
        /\ _hot_water = zone_is_hot_water(zone)
        /\ clock = 21600
        /\ ret = Ret("__init__", <<>>, "", FALSE, {}, "")

NextInfer ==
    \/ read_hvac_action
    \/ read_hvac_mode
    \/ read_is_aux_heat
    \/ call_zone_is_scheduled_on
    \/ Tick

SpecInfer == InitInfer /\ [][NextInfer]_vars

(***************************************************************************)
(* Vocabulary of the properties.                                           *)
(***************************************************************************)
\* The time of day and the weekday the routine takes as 'now': those of the
\* zone's timestamp, or of the system clock when it is missing or malformed.
NowSecs ==
    IF _zone.timestamp.kind = "int" THEN _zone.timestamp.v \div 1000 ELSE clock

NowMinutes == (NowSecs \div 60) % 1440

Today == DAYS[(((NowSecs \div 86400) + 3) % 7) + 1]

Minutes(stime) == stime[1] * 60 + stime[2]

VendorMode == ZoneModeNames[_zone.mode + 1]

ScheduledOn == zone_is_scheduled_on(_zone, clock)

BoostHours ==
    IF _zone.isboostactive /\ _zone.boostActivations # <<>>
    THEN _zone.boostActivations[1].numberofhours
    ELSE 0

(***************************************************************************)
(* Properties.                                                             *)
(***************************************************************************)
\* C1: a snapshot with an active boost of more than 0 hours whose current
\* temperature is below the boost target temperature is active and its
\* hvac_action is HEATING, whatever its mode, schedule, advance flag and zone
\* target temperature.
C1_BoostBelowBoostTargetHeats ==
    (BoostHours > 0
     /\ _zone.currenttemperature < _zone.boostActivations[1].targettemperature)
    => /\ zone_is_active(_zone, clock) = [exc |-> "", val |-> TRUE]
       /\ hvac_action = [exc |-> "", val |-> "heating"]

\* C2: in AUTO mode zone_is_scheduled_on is true exactly when now lies within
\* one of the periods p1, p2, p3 of today's weekday, bounds included.
C2_AutoIffInAPeriodOfToday ==
    VendorMode = "AUTO"
    => /\ ScheduledOn.exc = ""
       /\ ScheduledOn.val <=>
            \E p \in {"p1", "p2", "p3"} :
                /\ Minutes(_zone.programmes[Today][p].starttime) <= NowMinutes
                /\ NowMinutes <= Minutes(_zone.programmes[Today][p].endtime)

\* C3: in ALL_DAY mode zone_is_scheduled_on is true exactly when now lies
\* between today's p1 start and today's p3 end, bounds included.
C3_AllDayIffBetweenP1StartAndP3End ==
    VendorMode = "ALL_DAY"
    => /\ ScheduledOn.exc = ""
       /\ ScheduledOn.val <=>
            /\ Minutes(_zone.programmes[Today]["p1"].starttime) <= NowMinutes
            /\ NowMinutes <= Minutes(_zone.programmes[Today]["p3"].endtime)

\* C4: without boost hours, zone_is_active is true exactly when (the zone is
\* scheduled-on or its advance flag is set) and its current temperature is
\* strictly below its target; hvac_action is HEATING exactly when
\* zone_is_active is true and IDLE otherwise, so a zone that has reached its
\* target is IDLE.
C4_NoBoostActiveIffOnOrAdvanceAndBelowTarget ==
    BoostHours = 0
    => /\ zone_is_active(_zone, clock) =
            [exc |-> "",
             val |-> (ScheduledOn.val \/ _zone.isadvanceactive)
                     /\ _zone.currenttemperature < _zone.targettemperature]
       /\ hvac_action.exc = ""
       /\ hvac_action.val = "heating" <=> zone_is_active(_zone, clock).val
       /\ hvac_action.val = "idle" <=> ~ zone_is_active(_zone, clock).val
       /\ _zone.currenttemperature >= _zone.targettemperature
            => hvac_action.val = "idle"
       /\ ret.op = "hvac_action"
            => ret.exc = "" /\ ret.value = hvac_action.val

C4_Witness ==
    /\ BoostHours = 0
    /\ _zone.isadvanceactive
    /\ _zone.currenttemperature < _zone.targettemperature
    /\ ret.op = "hvac_action"
    /\ ret.value = "heating"

\* C5: zone_is_scheduled_on is false for a zone in vendor mode OFF and true
\* for a zone in vendor mode ON, for every schedule and timestamp.
C5_OffIsFalseAndOnIsTrue ==
    /\ VendorMode = "OFF" => ScheduledOn = [exc |-> "", val |-> FALSE]
    /\ VendorMode = "ON" => ScheduledOn = [exc |-> "", val |-> TRUE]

\* C6: set_temperature calls the vendor's set-target-temperature, with the
\* entity's zone name and the requested value, exactly when a temperature is
\* given, the zone is not hot water, the value differs from the snapshot's
\* target and lies within [5, 35]; otherwise it makes no vendor call and
\* changes neither the snapshot nor the vendor's zones; it never raises.
C6_SetTemperatureStep ==
    ret'.op = "set_temperature"
    => LET accepted ==
               /\ ret'.arg # <<>>
               /\ ~ _hot_water
               /\ ret'.arg[1] # _zone.targettemperature
               /\ 5 <= ret'.arg[1]
               /\ ret'.arg[1] <= 35
       IN  /\ ret'.exc = ""
           /\ ~ ret'.logged
           /\ _zone' = _zone
           /\ IF accepted
              THEN ret'.calls = {Call("set_target_temperture_by_name",
                                      _zone_name, <<ret'.arg[1]>>)}
              ELSE ret'.calls = {} /\ ember' = ember

C6_SetTemperature == [][C6_SetTemperatureStep]_vars

C6_Witness ==
    /\ ret.op = "set_temperature"
    /\ ret.arg = <<35>>
    /\ ret.calls = {Call("set_target_temperture_by_name", _zone_name, <<35>>)}
    /\ _zone.targettemperature = 21

\* C7: set_hvac_mode with a platform mode other than heat-cool, heat and off
\* logs an error and returns normally, without a vendor call and without
\* raising.
C7_UnmappedModeIsLoggedNotRaised ==
    (ret.op = "set_hvac_mode"
     /\ ret.arg[1] \notin {"heat_cool", "heat", "off"})
    => /\ ret.exc = ""
       /\ ret.logged
       /\ ret.calls = {}

\* C8: in AUTO or ALL_DAY mode, with a valid, missing or malformed timestamp,
\* the scheduled-on routine returns a boolean and raises nothing; with a
\* missing or malformed timestamp its result is the one for the time of day of
\* the system clock.
C8_ScheduledOnNeverRaises ==
    VendorMode \in {"AUTO", "ALL_DAY"}
    => /\ ScheduledOn.exc = ""
       /\ ScheduledOn.val \in BOOLEAN
       /\ _zone.timestamp.kind # "int"
            => ScheduledOn.val =
                 schedule_loop(_zone, zone_mode(_zone),
                               [hour |-> (clock \div 3600) % 24,
                                minute |-> (clock \div 60) % 60])
       /\ ret.op = "zone_is_scheduled_on"
            => ret.exc = "" /\ ret.value \in {"True", "False"}

C8_Witness ==
    /\ VendorMode = "AUTO"
    /\ _zone.timestamp.kind = "missing"
    /\ clock = 43200
    /\ ret.op = "zone_is_scheduled_on"
    /\ ret.exc = ""
    /\ ret.value = "False"

\* C9: platform mode -> vendor mode -> platform mode is the identity on
\* heat-cool, heat and off; ALL_DAY is not in the image of map_mode_hass_eph
\* and maps to heat-cool; no set_hvac_mode call asks the vendor for ALL_DAY.
C9_RoundTrip ==
    /\ \A i \in DOMAIN OPERATION_LIST :
          /\ map_mode_hass_eph(OPERATION_LIST[i]).exc = ""
          /\ map_mode_eph_hass(map_mode_hass_eph(OPERATION_LIST[i]).val)
               = OPERATION_LIST[i]
    /\ \A m \in HVACModes : map_mode_hass_eph(m).val.name # "ALL_DAY"
    /\ map_mode_eph_hass(ZoneMode("ALL_DAY")) = "heat_cool"
    /\ map_mode_eph_hass(pyephember_ZoneMode("ALL_DAY")) = "heat_cool"
    /\ ret.op = "set_hvac_mode"
         => \A c \in ret.calls :
               /\ c.fn = "set_mode_by_name"
               /\ c.arg # <<"ALL_DAY">>
               /\ map_mode_eph_hass(ZoneMode(c.arg[1])) = ret.arg[1]

C9_Witness ==
    /\ ret.op = "set_hvac_mode"
    /\ ret.arg = <<"heat">>
    /\ ret.calls = {Call("set_mode_by_name", _zone_name, <<"ON">>)}

\* C10: the snapshot changes only in update(), which replaces it by the
\* vendor's current copy of the zone named at construction; set_hvac_mode,
\* set_temperature, turn_aux_heat_on and turn_aux_heat_off leave it, and so
\* every property read from it, unchanged; every vendor call carries the
\* entity's own zone name, which never changes.
C10_Step ==
    /\ _zone' # _zone => ret'.op = "update"
    /\ ret'.op = "update"
         => _zone' = ember[_zone_name] /\ ember' = ember
    /\ ret'.op \in {"set_hvac_mode", "set_temperature", "turn_aux_heat_on",
                    "turn_aux_heat_off"}
         => /\ _zone' = _zone
            /\ current_temperature' = current_temperature
            /\ target_temperature' = target_temperature
            /\ hvac_mode' = hvac_mode
            /\ hvac_action' = hvac_action
            /\ is_aux_heat' = is_aux_heat
    /\ \A c \in ret'.calls : c.zone = _zone_name
    /\ _zone_name' = _zone_name
    /\ _zone_name' = zone_name(_zone')

C10_SnapshotChangesOnlyInUpdate == [][C10_Step]_vars

C10_Witness ==
    /\ ret.op = "set_hvac_mode"
    /\ ret.calls # {}
    /\ ember[_zone_name].mode # _zone.mode
    /\ hvac_mode # map_mode_eph_hass(zone_mode(ember[_zone_name]))

====
